---- MODULE Spec2Model ----
(***************************************************************************)
(* HA-Dash configurator page: the retrying fetch of utils.js               *)
(* (fetchWithRetry, sleep, fetchJsonWithRetry, showStatus,                 *)
(* formatRetryMessage) and the status poller loadStatus that drives the    *)
(* page's status and version elements.                                     *)
(*                                                                         *)
(* Every invocation of fetchJsonWithRetry owns a frame: the locals of      *)
(* fetchWithRetry (attempt, delay, lastError), its position (pc), and a    *)
(* record of what it did to the outside world (network calls issued,       *)
(* onRetry invocations, timers set).  An action is one run of the event    *)
(* loop: the code from one await to the next.                              *)
(***************************************************************************)
EXTENDS Integers, Sequences, FiniteSets, TLC

VARIABLES cfg, frame, hist, dom, prev, shown

vars == <<cfg, frame, hist, dom, prev, shown>>

-----------------------------------------------------------------------------
(* Bounds of the model and the inputs the environment draws from.          *)

\* maxRetries of the configurations tried on the executor: 0..MaxRetriesBound.
MaxRetriesBound == 3

\* Number of loadStatus invocations that can exist at once.
MaxCycles == 2

Slots == 1..MaxCycles

\* HTTP statuses a fetch can resolve with: both ends of each range the code
\* tests, the ranges between, and one above them.
Statuses == {200, 299, 300, 399, 400, 404, 499, 500, 599, 600}

InitialDelays == {1000, 40000}

MaxDelays == {3000, 30000}

Multipliers == {1, 2}

\* utils.js:20-26, the defaults of the destructured retryConfig.
DefaultMaxRetries == 3
DefaultInitialDelay == 1000
DefaultMaxDelay == 30000
DefaultBackoffMultiplier == 2

DefaultConfig ==
    [maxRetries |-> DefaultMaxRetries, initialDelay |-> DefaultInitialDelay,
     maxDelay |-> DefaultMaxDelay, backoffMultiplier |-> DefaultBackoffMultiplier,
     onRetry |-> FALSE]

\* The retryConfig objects handed to the executor (onRetry: a hook is supplied).
ExecConfigs ==
    [maxRetries : 0..MaxRetriesBound, initialDelay : InitialDelays,
     maxDelay : MaxDelays, backoffMultiplier : Multipliers, onRetry : BOOLEAN]

\* part_000:25-35, the retryConfig literal of loadStatus.
PollMaxRetries == 3
PollInitialDelay == 1000
PollMaxDelay == 10000
PollBackoffMultiplier == 2

PollerConfig ==
    [maxRetries |-> PollMaxRetries, initialDelay |-> PollInitialDelay,
     maxDelay |-> PollMaxDelay, backoffMultiplier |-> PollBackoffMultiplier,
     onRetry |-> TRUE]

-----------------------------------------------------------------------------
(* Values.                                                                 *)

\* `let lastError;` : undefined until an attempt fails.
NoError == [kind |-> "none", status |-> 0, attempt |-> 0]

\* new Error(`HTTP ${response.status}: ...`) built during attempt a.  Error
\* objects have identity: the attempt that built it is part of the value.
HttpError(s, a) == [kind |-> "http", status |-> s, attempt |-> a]

\* The rejection of fetch() itself during attempt a (TypeError: network).
NetworkError(a) == [kind |-> "network", status |-> 0, attempt |-> a]

\* The rejection of response.json() on a malformed body.
ParseError(a) == [kind |-> "parse", status |-> 0, attempt |-> a]

\* TypeError of `data.status` on a null body, DOMException of classList.add.
ScriptError(a) == [kind |-> "script", status |-> 0, attempt |-> a]

NoData == [isNull |-> TRUE, status |-> "", version |-> ""]

PayloadStatuses == {"running", "error", "idle", "constructor", ""}

PayloadVersions == {"1.2.3", ""}

\* What response.json() can resolve with: an object with string fields, or null.
Payloads ==
    [isNull : {FALSE}, status : PayloadStatuses, version : PayloadVersions]
        \cup {NoData}

BlankFrame ==
    [pc |-> "idle", attempt |-> 0, delay |-> 0, lastError |-> NoError,
     thrown |-> NoError, response |-> 0, data |-> NoData,
     calls |-> 0, notifs |-> <<>>, waits |-> <<>>,
     via |-> "none", outcome |-> "none"]

Min(a, b) == IF a < b THEN a ELSE b

-----------------------------------------------------------------------------
(* fetchWithRetry, utils.js:19-72.                                         *)

ResponseOkOnly200(s) == s = 200

\* response.ok (utils.js:36): the status is in 200..299.
ResponseOk(s) == 200 <= s /\ s <= 299

\* utils.js:41.
IsClientError(s) == s >= 400 /\ s < 500

LoopContinuesOneMore(attempt, c) == attempt <= c.maxRetries + 1

\* utils.js:31, the condition of the for loop.
LoopContinues(attempt, c) == attempt <= c.maxRetries

IsLastAttemptOrEarlier(f, c) == f.attempt <= c.maxRetries

\* utils.js:52.
IsLastAttempt(f, c) == f.attempt = c.maxRetries

AttemptsRemainInclusive(f, c) == f.attempt <= c.maxRetries

\* utils.js:58.
AttemptsRemain(f, c) == f.attempt < c.maxRetries

NextDelayUnclamped(delay, c) == delay * c.backoffMultiplier

\* utils.js:66.
NextDelay(delay, c) == Min(delay * c.backoffMultiplier, c.maxDelay)

\* utils.js:71 (and the rejection fetchJsonWithRetry passes on, :92-93).
Throw(f, e) == [f EXCEPT !.pc = "rejected", !.thrown = e]

\* utils.js:33, the call of fetch and the suspension on it.
IssueFetch(f) == [f EXCEPT !.pc = "fetch", !.calls = @ + 1]

\* utils.js:31, attempt++ and the loop test; the loop's exit is :71.
LoopNext(f, c) ==
    LET g == [f EXCEPT !.attempt = @ + 1]
    IN  IF LoopContinues(g.attempt, c) THEN IssueFetch(g) ELSE Throw(g, g.lastError)

AfterTryAdvancesBeforeHook(f, c) ==
    IF AttemptsRemain(f, c)
    THEN [f EXCEPT !.notifs = IF c.onRetry
                              THEN Append(@, <<f.attempt + 1, NextDelay(f.delay, c)>>)
                              ELSE @,
                   !.waits = Append(@, f.delay),
                   !.pc = "sleep"]
    ELSE LoopNext(f, c)

\* utils.js:57-67: the hook, the timer, and the suspension on the timer.
\* Without remaining attempts the loop goes straight to its next iteration.
AfterTry(f, c) ==
    IF AttemptsRemain(f, c)
    THEN [f EXCEPT !.notifs = IF c.onRetry
                              THEN Append(@, <<f.attempt + 1, f.delay>>)
                              ELSE @,
                   !.waits = Append(@, f.delay),
                   !.pc = "sleep"]
    ELSE LoopNext(f, c)

\* utils.js:48-55, the catch block.
Caught(f, c, e) ==
    LET g == [f EXCEPT !.lastError = e]
    IN  IF IsLastAttempt(g, c) THEN Throw(g, g.lastError) ELSE AfterTry(g, c)

\* utils.js:19-33: the entry, up to the first fetch.
fetchWithRetry(c, via) ==
    IF LoopContinues(0, c)
    THEN IssueFetch([BlankFrame EXCEPT !.delay = c.initialDelay, !.via = via])
    ELSE Throw([BlankFrame EXCEPT !.delay = c.initialDelay, !.via = via], NoError)

\* utils.js:33-46 and what follows: fetch resolved with status s.
\* An ok response is returned to fetchJsonWithRetry, which calls json() (:93).
OnResponse(f, c, s) ==
    IF ResponseOk(s)
    THEN [f EXCEPT !.pc = "json", !.response = s]
    ELSE IF IsClientError(s)
         THEN Caught(f, c, HttpError(s, f.attempt))
         ELSE AfterTry([f EXCEPT !.lastError = HttpError(s, f.attempt)], c)

\* utils.js:33, 48: fetch rejected.
OnFetchRejected(f, c) == Caught(f, c, NetworkError(f.attempt))

OnSleepElapsedStillWaiting(f, c) == f

\* utils.js:63-66, 31: the timer of sleep fired.
OnSleepElapsed(f, c) == LoopNext([f EXCEPT !.delay = NextDelay(f.delay, c)], c)

\* utils.js:93: response.json() resolved with data.
OnJsonParsed(f, data) == [f EXCEPT !.pc = "resolved", !.data = data]

OnJsonFailedInsideTry(f, c) == Caught(f, c, ParseError(f.attempt))

\* utils.js:93: response.json() rejected; nothing in fetchJsonWithRetry catches.
OnJsonFailed(f, c) == Throw(f, ParseError(f.attempt))

-----------------------------------------------------------------------------
(* What the environment answered, kept beside each frame.                  *)

\* last: how the latest answer of the environment ended; attempts: how many
\* fetches were answered; retryable: how many of them with a 5xx status or a
\* rejection of fetch.
NoHist == [last |-> "none", status |-> 0, attempts |-> 0, retryable |-> 0]

\* A failure the documentation calls retryable: a 5xx response.
IsServerError(s) == s >= 500 /\ s < 600

HistResponse(h, s) ==
    [h EXCEPT !.last = "response", !.status = s, !.attempts = @ + 1,
              !.retryable = IF IsServerError(s) THEN @ + 1 ELSE @]

HistRejected(h) ==
    [h EXCEPT !.last = "rejected", !.status = 0, !.attempts = @ + 1,
              !.retryable = @ + 1]

HistParsed(h) == [h EXCEPT !.last = "parsed"]

HistParseFailed(h) == [h EXCEPT !.last = "parsefail"]

-----------------------------------------------------------------------------
(* The page.  Its markup is not part of the sources; the two elements      *)
(* #server-status and #server-version are taken to exist, empty, before    *)
(* the script runs.  statusText is the text the status element shows (its  *)
(* own text, or the text of the span loadStatus puts in it), statusClass   *)
(* its class list, retryButton whether it holds the Retry button.          *)

InitialDom ==
    [statusText |-> "", statusClass |-> {"value"}, retryButton |-> FALSE,
     versionText |-> ""]

\* utils.js:109, the classes showStatus removes.
StatusClasses ==
    {"status-info", "status-success", "status-error", "status-warning",
     "status-running"}

\* utils.js:112-118, the own keys of classMap.
KnownTypes == {"info", "success", "running", "error", "warning"}

\* Keys classMap inherits from Object.prototype: classMap[type] is then a
\* function or an object, which is truthy (utils.js:120).
InheritedKeys == {"constructor", "toString", "valueOf", "hasOwnProperty"}

\* utils.js:112-118.
classMap(type) == "status-" \o type

\* utils.js:121: classList.add of an inherited value, whose string form holds
\* white space, throws InvalidCharacterError.
showStatusThrows(type) == type \in InheritedKeys

showStatusKeepsClasses(d, message, type) ==
    [d EXCEPT !.statusText = message,
              !.retryButton = FALSE,
              !.statusClass = @ \cup
                              (IF type \in KnownTypes THEN {classMap(type)} ELSE {})]

\* utils.js:102-123.  Setting textContent removes the element's children.
showStatus(d, message, type) ==
    [d EXCEPT !.statusText = message,
              !.retryButton = FALSE,
              !.statusClass = (@ \ StatusClasses) \cup
                              (IF type \in KnownTypes THEN {classMap(type)} ELSE {})]

formatRetryMessageWholeSeconds(attempt, delay) ==
    "Retrying (attempt " \o ToString(attempt) \o ") in "
        \o ToString(delay \div 1000) \o "s..."

\* utils.js:131-133, (delay / 1000).toFixed(1) for a delay in whole
\* milliseconds: the nearest tenth of a second.  (For a delay that ends in
\* 50 the digit toFixed picks depends on the binary value of delay / 1000;
\* no delay of the model does.)
formatRetryMessage(attempt, delay) ==
    LET tenths == (delay + 50) \div 100
    IN  "Retrying (attempt " \o ToString(attempt) \o ") in "
            \o ToString(tenths \div 10) \o "." \o ToString(tenths % 10) \o "s..."

\* A JavaScript string is truthy when it is not empty.
Truthy(str) == str # ""

loadStatusLoadingKeepsButton(d) ==
    [d EXCEPT !.statusText = "Loading...", !.statusClass = {"value"},
              !.versionText = "Loading..."]

\* part_000:11-18: the element's text is replaced, which removes the button.
loadStatusLoading(d) ==
    [d EXCEPT !.statusText = "Loading...", !.statusClass = {"value"},
              !.retryButton = FALSE, !.versionText = "Loading..."]

\* part_000:30-34, the onRetry hook of loadStatus.
loadStatusOnRetry(d, attempt, delay) ==
    showStatus(d, formatRetryMessage(attempt, delay), "warning")

loadStatusCatchKeepsVersion(d) ==
    [d EXCEPT !.statusText = "Error", !.statusClass = {"value", "status-error"},
              !.retryButton = TRUE]

\* part_000:49-74, the catch block.
loadStatusCatch(d) ==
    [d EXCEPT !.statusText = "Error", !.statusClass = {"value", "status-error"},
              !.retryButton = TRUE, !.versionText = "N/A"]

\* part_000:38-41 throws: data is null, or showStatus throws.
loadStatusShowThrows(data) ==
    \/ data.isNull
    \/ Truthy(data.status) /\ showStatusThrows(data.status)

\* part_000:38-45.
loadStatusShow(d, data) ==
    LET d1 == IF Truthy(data.status)
              THEN showStatus(d, data.status, data.status)
              ELSE d
    IN  IF Truthy(data.version) THEN [d1 EXCEPT !.versionText = data.version] ELSE d1

\* part_000:20-75, loadStatus resumed by the event that took its frame from
\* f to g: the hook if the executor called it, then the rest of the try
\* block or the catch block if fetchJsonWithRetry settled.
loadStatusFrame(g) ==
    IF g.pc = "resolved"
    THEN IF loadStatusShowThrows(g.data)
         THEN [g EXCEPT !.pc = "done", !.outcome = "failed",
                        !.thrown = ScriptError(g.attempt)]
         ELSE [g EXCEPT !.pc = "done", !.outcome = "success"]
    ELSE IF g.pc = "rejected"
         THEN [g EXCEPT !.pc = "done", !.outcome = "failed"]
         ELSE g

loadStatusDom(f, g, d) ==
    LET d1 == IF Len(g.notifs) > Len(f.notifs)
              THEN loadStatusOnRetry(d, g.notifs[Len(g.notifs)][1],
                                     g.notifs[Len(g.notifs)][2])
              ELSE d
    IN  IF g.pc = "resolved"
        THEN IF loadStatusShowThrows(g.data)
             THEN loadStatusCatch(d1)
             ELSE loadStatusShow(d1, g.data)
        ELSE IF g.pc = "rejected" THEN loadStatusCatch(d1) ELSE d1

\* The call of showStatus by a script other than loadStatus that wrote what
\* the status element shows now, if one did: the type it passed, and the
\* element's classes before the call.
NoShown == [type |-> "none", before |-> {}]

\* What a finished invocation leaves behind for comparison with the next.
NoPrev == [calls |-> 0, kind |-> "none", delay |-> 0]

Summary(f) == [calls |-> f.calls, kind |-> f.thrown.kind, delay |-> f.delay]

Free(i) == frame[i].pc \in {"idle", "done"}

\* The frame a new invocation takes: the first one not in use.
FreeSlot == CHOOSE i \in Slots : Free(i) /\ \A j \in 1..(i - 1) : ~Free(j)

-----------------------------------------------------------------------------
(* One invocation of fetchJsonWithRetry by a caller that only awaits it.   *)

InitExec ==
    /\ cfg \in ExecConfigs
    /\ frame = [i \in Slots |-> BlankFrame]
    /\ hist = [i \in Slots |-> NoHist]
    /\ dom = InitialDom
    /\ prev = NoPrev
    /\ shown = NoShown

ExecCall ==
    /\ frame[1].pc = "idle"
    /\ frame' = [frame EXCEPT ![1] = fetchWithRetry(cfg, "direct")]
    /\ UNCHANGED <<cfg, hist, dom, prev, shown>>

ExecResponse ==
    /\ frame[1].pc = "fetch"
    /\ \E s \in Statuses :
          /\ frame' = [frame EXCEPT ![1] = OnResponse(@, cfg, s)]
          /\ hist' = [hist EXCEPT ![1] = HistResponse(@, s)]
    /\ UNCHANGED <<cfg, dom, prev, shown>>

ExecFetchRejected ==
    /\ frame[1].pc = "fetch"
    /\ frame' = [frame EXCEPT ![1] = OnFetchRejected(@, cfg)]
    /\ hist' = [hist EXCEPT ![1] = HistRejected(@)]
    /\ UNCHANGED <<cfg, dom, prev, shown>>

ExecSleepElapsed ==
    /\ frame[1].pc = "sleep"
    /\ frame' = [frame EXCEPT ![1] = OnSleepElapsed(@, cfg)]
    /\ UNCHANGED <<cfg, hist, dom, prev, shown>>

ExecJsonParsed ==
    /\ frame[1].pc = "json"
    /\ \E d \in Payloads :
          frame' = [frame EXCEPT ![1] = OnJsonParsed(@, d)]
    /\ hist' = [hist EXCEPT ![1] = HistParsed(@)]
    /\ UNCHANGED <<cfg, dom, prev, shown>>

ExecJsonFailed ==
    /\ frame[1].pc = "json"
    /\ frame' = [frame EXCEPT ![1] = OnJsonFailed(@, cfg)]
    /\ hist' = [hist EXCEPT ![1] = HistParseFailed(@)]
    /\ UNCHANGED <<cfg, dom, prev, shown>>

NextExec ==
    \/ ExecCall
    \/ ExecResponse
    \/ ExecFetchRejected
    \/ ExecSleepElapsed
    \/ ExecJsonParsed
    \/ ExecJsonFailed

SpecExec == InitExec /\ [][NextExec]_vars

-----------------------------------------------------------------------------
(* The status poller: loadStatus, part_000:7-81.                           *)

Init ==
    /\ cfg = PollerConfig
    /\ frame = [i \in Slots |-> BlankFrame]
    /\ hist = [i \in Slots |-> NoHist]
    /\ dom = InitialDom
    /\ prev = NoPrev
    /\ shown = NoShown

loadStatusCancelsPending(i, via) ==
    LET g == fetchWithRetry(cfg, via)
    IN  /\ frame' = [j \in Slots |->
                        IF j = i THEN loadStatusFrame(g)
                        ELSE IF frame[j].pc \in {"fetch", "sleep", "json"}
                             THEN [frame[j] EXCEPT !.pc = "done", !.outcome = "failed"]
                             ELSE frame[j]]
        /\ dom' = loadStatusDom(BlankFrame, g, loadStatusLoading(dom))
        /\ hist' = [hist EXCEPT ![i] = NoHist]
        /\ prev' = IF frame[i].pc = "done" THEN Summary(frame[i]) ELSE prev
        /\ shown' = NoShown
        /\ UNCHANGED cfg

\* part_000:7-36: loadStatus up to its await, in frame i.
loadStatus(i, via) ==
    LET g == fetchWithRetry(cfg, via)
    IN  /\ frame' = [frame EXCEPT ![i] = loadStatusFrame(g)]
        /\ dom' = loadStatusDom(BlankFrame, g, loadStatusLoading(dom))
        /\ hist' = [hist EXCEPT ![i] = NoHist]
        /\ prev' = IF frame[i].pc = "done" THEN Summary(frame[i]) ELSE prev
        /\ shown' = NoShown
        /\ UNCHANGED cfg

\* part_000:81, DOMContentLoaded: once, before anything else.
PageReady ==
    /\ \A i \in Slots : frame[i].pc = "idle"
    /\ loadStatus(FreeSlot, "ready")

RetryClickKeepsDelay ==
    /\ dom.retryButton
    /\ \E i \in Slots : Free(i)
    /\ frame' = [frame EXCEPT ![FreeSlot] =
                    [fetchWithRetry(cfg, "retry") EXCEPT !.delay = frame[FreeSlot].delay]]
    /\ dom' = loadStatusLoading(dom)
    /\ hist' = [hist EXCEPT ![FreeSlot] = NoHist]
    /\ prev' = Summary(frame[FreeSlot])
    /\ shown' = NoShown
    /\ UNCHANGED cfg

\* part_000:67, the onclick of the Retry button.
RetryClick ==
    /\ dom.retryButton
    /\ \E i \in Slots : Free(i)
    /\ loadStatus(FreeSlot, "retry")

\* The event that takes frame i from f to g, with loadStatus resumed.
Resume(i, g) ==
    /\ frame' = [frame EXCEPT ![i] = loadStatusFrame(g)]
    /\ dom' = loadStatusDom(frame[i], g, dom)
    /\ shown' = IF dom' = dom THEN shown ELSE NoShown
    /\ UNCHANGED <<cfg, prev>>

PollResponse(i) ==
    /\ frame[i].pc = "fetch"
    /\ \E s \in Statuses :
          /\ Resume(i, OnResponse(frame[i], cfg, s))
          /\ hist' = [hist EXCEPT ![i] = HistResponse(@, s)]

PollFetchRejected(i) ==
    /\ frame[i].pc = "fetch"
    /\ Resume(i, OnFetchRejected(frame[i], cfg))
    /\ hist' = [hist EXCEPT ![i] = HistRejected(@)]

PollSleepElapsed(i) ==
    /\ frame[i].pc = "sleep"
    /\ Resume(i, OnSleepElapsed(frame[i], cfg))
    /\ UNCHANGED hist

PollJsonParsed(i) ==
    /\ frame[i].pc = "json"
    /\ \E d \in Payloads :
          Resume(i, OnJsonParsed(frame[i], d))
    /\ hist' = [hist EXCEPT ![i] = HistParsed(@)]

PollJsonFailed(i) ==
    /\ frame[i].pc = "json"
    /\ Resume(i, OnJsonFailed(frame[i], cfg))
    /\ hist' = [hist EXCEPT ![i] = HistParseFailed(@)]

Next ==
    \/ PageReady
    \/ RetryClick
    \/ \E i \in Slots : PollResponse(i)
    \/ \E i \in Slots : PollFetchRejected(i)
    \/ \E i \in Slots : PollSleepElapsed(i)
    \/ \E i \in Slots : PollJsonParsed(i)
    \/ \E i \in Slots : PollJsonFailed(i)

Spec == Init /\ [][Next]_vars

-----------------------------------------------------------------------------
(* The page with other callers of the exported utilities                   *)
(* (window.HADashUtils, utils.js:136-142).                                 *)

\* Types a caller passes to showStatus: the documented ones and one outside
\* the table.
ShowTypes == KnownTypes \cup {"idle"}

ShowMessages == {"Saved"}

\* utils.js:102-123: showStatus('server-status', message, type) called by
\* another script of the page.  When classList.add throws, what showStatus
\* did before it stays done.
ShowStatusCall ==
    /\ \E type \in ShowTypes, message \in ShowMessages :
          /\ dom' = showStatus(dom, message, type)
          /\ shown' = [type |-> type, before |-> dom.statusClass]
    /\ UNCHANGED <<cfg, frame, hist, prev>>

NextShow ==
    \/ Next
    \/ ShowStatusCall

SpecShow == Init /\ [][NextShow]_vars

-----------------------------------------------------------------------------
(* Properties of the executor, read on the frame of the one invocation.    *)

F == frame[1]

H == hist[1]

\* The delay the documentation gives for the i-th retry: initialDelay, then
\* each time the product with the multiplier, capped at maxDelay.
RECURSIVE BackoffDelay(_, _)
BackoffDelay(i, c) ==
    IF i <= 1
    THEN c.initialDelay
    ELSE LET d == BackoffDelay(i - 1, c) * c.backoffMultiplier
         IN  IF d > c.maxDelay THEN c.maxDelay ELSE d

ExpectedNotifs(k, c) == [i \in 1..k |-> <<i, BackoffDelay(i, c)>>]

ExpectedWaits(k, c) == [i \in 1..k |-> BackoffDelay(i, c)]

\* The frame did nothing since the answer to its latest fetch: every call
\* issued was answered, and every wait and notification precedes that call.
NothingSinceLastAnswer ==
    /\ F.calls = H.attempts
    /\ Len(F.waits) = H.attempts - 1
    /\ Len(F.notifs) = IF cfg.onRetry THEN H.attempts - 1 ELSE 0

\* C1: with maxRetries >= 1, a response with a status in [400,500) ends the
\* invocation at once: it is rejected with the error of that status, and no
\* fetch, no onRetry and no wait follows the response.
C1_ClientErrorTerminal ==
    (cfg.maxRetries >= 1 /\ H.last = "response" /\ H.status >= 400 /\ H.status < 500)
        => /\ F.pc = "rejected"
           /\ F.thrown.kind = "http"
           /\ F.thrown.status = H.status
           /\ NothingSinceLastAnswer

\* C2: one invocation issues at most maxRetries + 1 network calls.
C2_AtMostNPlusOneCalls == F.calls <= cfg.maxRetries + 1

C2_Witness ==
    /\ cfg.maxRetries = MaxRetriesBound
    /\ F.calls = cfg.maxRetries + 1
    /\ F.pc = "rejected"
    /\ H.retryable < H.attempts

\* The invocation has gone on from fetchWithRetry's return to the parsing of
\* the body (which succeeded, failed, or is pending).
ReturnedResponse ==
    \/ F.pc \in {"json", "resolved"}
    \/ F.pc = "rejected" /\ F.thrown.kind = "parse"

\* C3 as stated: a response with a status in [200,400) is returned at once;
\* no attempt, notification or wait follows it.
C3_Status200To399Returned ==
    (H.last \in {"response", "parsed", "parsefail"} /\ H.status >= 200 /\ H.status < 400)
        => /\ ReturnedResponse
           /\ F.response = H.status
           /\ NothingSinceLastAnswer

\* C3 amended: a response with a status in [200,300) is returned at once;
\* no attempt, notification or wait follows it.
C3_Status200To299Returned ==
    (H.last \in {"response", "parsed", "parsefail"} /\ H.status >= 200 /\ H.status < 300)
        => /\ ReturnedResponse
           /\ F.response = H.status
           /\ NothingSinceLastAnswer

C3_Witness ==
    /\ H.last = "response"
    /\ H.status = 299
    /\ F.pc = "json"
    /\ F.attempt >= 1
    /\ F.attempt < cfg.maxRetries

\* C4: when the first k attempts end in a 5xx status or a rejected fetch and
\* attempt k+1 succeeds, the response is returned after exactly k+1 calls,
\* onRetry has fired k times with attempts 1..k and the delays initialDelay,
\* min(d * backoffMultiplier, maxDelay), ..., and the same delays were waited.
C4_SuccessAfterKRetries ==
    (F.pc = "json" /\ H.retryable = H.attempts - 1)
        => /\ H.retryable <= cfg.maxRetries
           /\ F.calls = H.retryable + 1
           /\ F.waits = ExpectedWaits(H.retryable, cfg)
           /\ cfg.onRetry => F.notifs = ExpectedNotifs(H.retryable, cfg)
           /\ ~cfg.onRetry => F.notifs = <<>>

\* The sequence [500, x, 200] under the defaults with a hook.
C4_Witness ==
    /\ cfg = [DefaultConfig EXCEPT !.onRetry = TRUE]
    /\ F.pc = "json"
    /\ H.retryable = 2
    /\ H.attempts = 3
    /\ F.notifs = <<<<1, 1000>>, <<2, 2000>>>>

\* C5: when every attempt ends in a 5xx status or a rejected fetch, the
\* invocation is rejected after exactly maxRetries + 1 calls, maxRetries
\* notifications and maxRetries waits, with the error of the final attempt.
C5_ExhaustionRaisesLastError ==
    (F.pc = "rejected" /\ H.attempts >= 1 /\ H.retryable = H.attempts)
        => /\ F.calls = cfg.maxRetries + 1
           /\ H.attempts = cfg.maxRetries + 1
           /\ Len(F.waits) = cfg.maxRetries
           /\ Len(F.notifs) = IF cfg.onRetry THEN cfg.maxRetries ELSE 0
           /\ F.thrown.attempt = cfg.maxRetries
           /\ H.last = "response" => F.thrown = HttpError(H.status, cfg.maxRetries)
           /\ H.last = "rejected" => F.thrown = NetworkError(cfg.maxRetries)

C5_Witness ==
    /\ cfg.maxRetries = MaxRetriesBound
    /\ cfg.onRetry
    /\ F.pc = "rejected"
    /\ H.retryable = H.attempts
    /\ H.attempts = cfg.maxRetries + 1
    /\ H.last = "response"
    /\ H.status = 500

\* C6: for every configuration the delays waited are non-decreasing and
\* none exceeds maxDelay.
C6_DelaysMonotoneAndBounded ==
    \A j \in 1..Len(F.waits) :
        /\ F.waits[j] <= cfg.maxDelay
        /\ j > 1 => F.waits[j - 1] <= F.waits[j]

\* C7: a failure to parse the body of a returned response is raised and not
\* retried: no fetch, notification or wait follows it.
C7_ParseFailureNotRetried ==
    H.last = "parsefail"
        => /\ F.pc = "rejected"
           /\ F.thrown = ParseError(H.attempts - 1)
           /\ NothingSinceLastAnswer

C7_Witness ==
    /\ H.last = "parsefail"
    /\ F.pc = "rejected"
    /\ F.attempt = 1
    /\ cfg.maxRetries = MaxRetriesBound

-----------------------------------------------------------------------------
(* Properties of the status poller.                                        *)

LoadingDisplay ==
    [statusText |-> "Loading...", statusClass |-> {"value"},
     retryButton |-> FALSE, versionText |-> "Loading..."]

ErrorDisplay ==
    [statusText |-> "Error", statusClass |-> {"value", "status-error"},
     retryButton |-> TRUE, versionText |-> "N/A"]

\* The class the kind table of the presenter gives a kind, if any.
KindClass(kind) ==
    IF kind \in {"info", "success", "running", "error", "warning"}
    THEN {"status-" \o kind}
    ELSE {}

\* C8: whenever the decoder returns a payload {status, version}, the cycle
\* ends in Success, the status display shows the payload's status as its
\* text and as its kind, and the version display shows the payload's version.
C8_PayloadShown ==
    \A i \in Slots :
        (frame[i].pc = "done" /\ hist[i].last = "parsed" /\ ~frame[i].data.isNull)
            => /\ frame[i].outcome = "success"
               /\ dom.statusText = frame[i].data.status
               /\ dom.statusClass = {"value"} \cup KindClass(frame[i].data.status)
               /\ dom.versionText = frame[i].data.version

\* C9: every error that surfaces in loadStatus ends the cycle in Failed, with
\* the same display whatever the error: the text "Error" with the error
\* class and the Retry button, and the version "N/A".
C9_AnyErrorShowsGenericError ==
    \A i \in Slots :
        (frame[i].thrown # NoError \/ hist[i].last = "parsefail")
            => /\ frame[i].pc = "done"
               /\ frame[i].outcome = "failed"
               /\ dom = ErrorDisplay

\* A decode error shown after a cycle that ended with an HTTP error.
C9_Witness ==
    \E i \in Slots :
        /\ frame[i].pc = "done"
        /\ frame[i].outcome = "failed"
        /\ frame[i].thrown.kind = "parse"
        /\ prev.kind = "http"
        /\ dom = ErrorDisplay

PollRetryNotifs == <<<<1, 1000>>, <<2, 2000>>, <<3, 4000>>>>

\* C10: a cycle started by the Retry button starts in Loading at attempt 0
\* with delay initialDelay, and makes up to 4 calls with the retry delays
\* 1000, 2000, 4000, whatever the cycle before it consumed.
C10_RetryCycleStartsFresh ==
    \A i \in Slots :
        frame[i].via = "retry"
            => /\ frame[i].calls <= 4
               /\ Len(frame[i].notifs) <= 3
               /\ frame[i].notifs = SubSeq(PollRetryNotifs, 1, Len(frame[i].notifs))
               /\ frame[i].waits = [j \in 1..Len(frame[i].notifs) |-> frame[i].notifs[j][2]]
               /\ (frame[i].pc = "fetch" /\ frame[i].calls = 1)
                    => /\ frame[i].attempt = 0
                       /\ frame[i].delay = 1000
                       /\ dom = LoadingDisplay
               /\ frame[i].pc \in {"fetch", "sleep"}
                    => /\ frame[i].calls = frame[i].attempt + 1
                       /\ Len(frame[i].notifs) =
                            IF frame[i].pc = "sleep" THEN frame[i].attempt + 1
                                                     ELSE frame[i].attempt

\* A cycle started by Retry makes its fourth call after a cycle that made
\* four calls and had advanced its delay three times.
C10_Witness ==
    \E i \in Slots :
        /\ frame[i].via = "retry"
        /\ frame[i].pc = "fetch"
        /\ frame[i].calls = 4
        /\ frame[i].notifs = PollRetryNotifs
        /\ prev.calls = 4
        /\ prev.delay = 8000

-----------------------------------------------------------------------------
(* Properties of the presenter.                                            *)

FiveStatusClasses ==
    {"status-info", "status-success", "status-running", "status-error",
     "status-warning"}

\* C11: after any sequence of showStatus calls and loadStatus transitions the
\* status element carries at most one of the five status classes; a call
\* with kind error on an element that carries the class of kind running
\* leaves the class of error as the only one.
C11_AtMostOneStatusClass ==
    /\ Cardinality(dom.statusClass \cap FiveStatusClasses) <= 1
    /\ (shown.type = "error" /\ "status-running" \in shown.before)
          => dom.statusClass \cap FiveStatusClasses = {"status-error"}

C11_Witness ==
    /\ shown.type = "error"
    /\ "status-running" \in shown.before
    /\ dom.statusText \in ShowMessages
    /\ dom.statusClass = {"value", "status-error"}
    /\ \E i \in Slots : frame[i].outcome = "success" /\ frame[i].data.status = "running"

\* The messages of the poller's three retries.
PollRetryTexts ==
    <<"Retrying (attempt 1) in 1.0s...", "Retrying (attempt 2) in 2.0s...",
      "Retrying (attempt 3) in 4.0s...">>

\* The status element shows the n-th retry message as a warning, and the
\* version element still shows the loading text.
ShowsRetryWarning(n) ==
    /\ dom.statusText = PollRetryTexts[n]
    /\ dom.statusClass = {"value", "status-warning"}
    /\ ~dom.retryButton
    /\ dom.versionText = "Loading..."

\* C12: each retry notification sets the status display to kind warning with
\* the text "Retrying (attempt a) in d.ds...", the cycle stays in Loading,
\* and the next attempt is made; formatRetryMessage(2, 4000) is
\* "Retrying (attempt 2) in 4.0s...".
C12_RetryNotificationShowsWarning ==
    /\ [](/\ formatRetryMessage(2, 4000) = "Retrying (attempt 2) in 4.0s..."
          /\ \A i \in Slots :
                (frame[i].pc \in {"sleep", "fetch"} /\ Len(frame[i].notifs) >= 1)
                    => /\ ShowsRetryWarning(Len(frame[i].notifs))
                       /\ frame[i].outcome = "none")
    /\ [][\A i \in Slots :
            (frame[i].pc = "sleep" /\ frame'[i] # frame[i])
                => /\ frame'[i].pc = "fetch"
                   /\ frame'[i].calls = frame[i].calls + 1
                   /\ frame'[i].notifs = frame[i].notifs
                   /\ dom' = dom]_vars

C12_Witness ==
    \E i \in Slots :
        /\ frame[i].pc = "fetch"
        /\ frame[i].calls = 3
        /\ dom.statusText = "Retrying (attempt 2) in 2.0s..."
        /\ dom.statusClass = {"value", "status-warning"}

\* C13: showStatus with a kind outside the five sets the text and leaves no
\* status class; a payload status outside the kind table is shown as
\* unstyled text.
C13_UnknownKindShownUnstyled ==
    \A i \in Slots :
        (/\ frame[i].pc = "done"
         /\ hist[i].last = "parsed"
         /\ ~frame[i].data.isNull
         /\ frame[i].data.status # ""
         /\ frame[i].data.status \notin {"info", "success", "running", "error", "warning"})
            => /\ frame[i].outcome = "success"
               /\ dom.statusText = frame[i].data.status
               /\ dom.statusClass \cap FiveStatusClasses = {}

\* The latest answer was a failure C14 calls retryable: a rejected fetch, or
\* a status in [500,600) or in none of [200,400), [400,500), [500,600).
LastAnswerRetryable ==
    \/ H.last = "rejected"
    \/ H.last = "response" /\ (H.status >= 500 \/ H.status < 200)

\* The error the attempt with index a built for the latest answer.
LastAnswerError(a) ==
    IF H.last = "rejected" THEN NetworkError(a) ELSE HttpError(H.status, a)

\* C14: a rejected fetch and a status in [500,600) or in no matched range are
\* retryable: below attempt index maxRetries the error is recorded and a
\* further attempt follows; fetchWithRetry raises only after the attempt
\* with index maxRetries was made.
C14_RetryableFailuresRetried ==
    /\ (LastAnswerRetryable /\ H.attempts - 1 < cfg.maxRetries)
          => /\ F.lastError = LastAnswerError(H.attempts - 1)
             /\ \/ F.pc = "sleep" /\ F.calls = H.attempts /\ Len(F.waits) = H.attempts
                \/ F.pc = "fetch" /\ F.calls = H.attempts + 1
    /\ (F.pc = "rejected" /\ F.thrown.kind \in {"http", "network"})
          => /\ H.attempts = cfg.maxRetries + 1
             /\ F.calls = cfg.maxRetries + 1

C14_Witness ==
    /\ cfg.maxRetries = MaxRetriesBound
    /\ H.last = "response"
    /\ H.status = 600
    /\ H.attempts = 3
    /\ F.pc = "fetch"
    /\ F.calls = 4
    /\ F.lastError = HttpError(600, 2)

\* Attempts of the invocation that were answered with a failure.
FailedAttempts == IF F.response # 0 THEN H.attempts - 1 ELSE H.attempts

\* C15: every network call but the first is preceded by one onRetry (when a
\* hook is supplied) and one wait of the delay notified, and the delay is
\* advanced only after that wait; the notifications and the waits number the
\* failed attempts that were followed by another attempt; without a hook the
\* waits and attempts are the same.
C15_NotifyThenWaitThenAdvance ==
    /\ Len(F.waits) = IF FailedAttempts < cfg.maxRetries
                      THEN FailedAttempts ELSE cfg.maxRetries
    /\ F.waits = ExpectedWaits(Len(F.waits), cfg)
    /\ cfg.onRetry => F.notifs = [j \in 1..Len(F.waits) |-> <<j, F.waits[j]>>]
    /\ ~cfg.onRetry => F.notifs = <<>>
    /\ F.pc = "sleep" => /\ F.calls = Len(F.waits)
                         /\ F.delay = F.waits[Len(F.waits)]
    /\ F.pc \notin {"idle", "sleep"} => F.calls = Len(F.waits) + 1
    /\ F.pc = "fetch" => F.delay = BackoffDelay(Len(F.waits) + 1, cfg)

C15_Witness ==
    /\ cfg = [DefaultConfig EXCEPT !.onRetry = TRUE]
    /\ F.pc = "fetch"
    /\ F.calls = 3
    /\ F.notifs = <<<<1, 1000>>, <<2, 2000>>>>
    /\ F.waits = <<1000, 2000>>
    /\ F.delay = 4000

-----------------------------------------------------------------------------
(* The page when loadStatus is also invoked through the global it is       *)
(* exported as (part_000:78).                                              *)

InFlight(i) == frame[i].pc \in {"fetch", "sleep", "json"}

\* part_000:78, window.loadStatus(): an invocation from outside the page's
\* own handlers, at any time after the page is ready.
WindowLoadStatus ==
    /\ \E i \in Slots : frame[i].pc # "idle"
    /\ \E i \in Slots : Free(i)
    /\ loadStatus(FreeSlot, "window")

\* The answers of the server while cycles overlap: one that succeeds and one
\* that fails.
OverlapStatuses == {200, 500}

OverlapPayloads == {[isNull |-> FALSE, status |-> "running", version |-> "1.2.3"]}

\* fetch resolves for the cycle in frame i.
OverlapResponse(i) ==
    /\ frame[i].pc = "fetch"
    /\ \E s \in OverlapStatuses :
          /\ Resume(i, OnResponse(frame[i], cfg, s))
          /\ hist' = [hist EXCEPT ![i] = HistResponse(@, s)]

\* response.json() resolves for the cycle in frame i.
OverlapJsonParsed(i) ==
    /\ frame[i].pc = "json"
    /\ \E d \in OverlapPayloads :
          Resume(i, OnJsonParsed(frame[i], d))
    /\ hist' = [hist EXCEPT ![i] = HistParsed(@)]

NextOverlap ==
    \/ PageReady
    \/ RetryClick
    \/ WindowLoadStatus
    \/ \E i \in Slots : OverlapResponse(i)
    \/ \E i \in Slots : PollSleepElapsed(i)
    \/ \E i \in Slots : OverlapJsonParsed(i)

SpecOverlap == Init /\ [][NextOverlap]_vars

TwoInFlight == \E i, j \in Slots : i # j /\ InFlight(i) /\ InFlight(j)

\* The step starts a cycle in frame i.
Starts(i) == Free(i) /\ frame'[i].pc = "fetch" /\ frame'[i].calls = 1

\* The step is a callback of the cycle in frame i that ends it.
Finishes(i) == InFlight(i) /\ frame'[i].pc = "done"

\* The step is a callback of the cycle in frame i that notifies a retry.
Notifies(i) == InFlight(i) /\ Len(frame'[i].notifs) = Len(frame[i].notifs) + 1

-----------------------------------------------------------------------------
(* The page when every fetch settles, every timer fires and every          *)
(* response.json() settles.                                                *)

\* utils.js:34, 80, 93: the promises loadStatus is suspended on settle.
Settles ==
    \A i \in Slots :
        /\ WF_vars(PollResponse(i) \/ PollFetchRejected(i))
        /\ WF_vars(PollSleepElapsed(i))
        /\ WF_vars(PollJsonParsed(i) \/ PollJsonFailed(i))

SpecLive == Spec /\ Settles

Ended(i) == frame[i].pc = "done" /\ frame[i].outcome \in {"success", "failed"}

\* C17: when every network call settles and every backoff wait elapses, every
\* started cycle reaches Success or Failed, so none stays in Loading or in a
\* retry warning for ever; a cycle that has reached Success or Failed makes
\* no further network call.
C17_EveryCycleEnds ==
    /\ \A i \in Slots : InFlight(i) ~> Ended(i)
    /\ [][\A i \in Slots :
            Ended(i) => (frame'[i] = frame[i] \/ (Starts(i) /\ frame'[i].via = "retry"))]_vars

C17_Witness ==
    /\ frame[1].via = "ready"
    /\ Ended(1)
    /\ frame[1].outcome = "success"
    /\ frame[1].calls = 4
    /\ Len(frame[1].notifs) = 3
    /\ frame[2].pc = "idle"

-----------------------------------------------------------------------------
(* Properties of the page that starts cycles by the page-ready event and   *)
(* the Retry button only.                                                  *)

\* C18: at most one cycle is in flight; the Retry button is in the status
\* element exactly when no cycle is in flight and the last one ended in
\* Failed, so never in Loading, in a retry warning or in Success.
C18_RetryOnlyAfterFailed ==
    /\ ~TwoInFlight
    /\ dom.retryButton
          <=> /\ \A i \in Slots : ~InFlight(i)
              /\ \E i \in Slots : frame[i].pc = "done" /\ frame[i].outcome = "failed"
    /\ dom.retryButton => dom = ErrorDisplay
    /\ \A i \in Slots :
          (InFlight(i) \/ (frame[i].pc = "done" /\ frame[i].outcome = "success"))
              => ~dom.retryButton
    /\ (dom.statusText = "Loading..." \/ dom.statusClass = {"value", "status-warning"})
          => ~dom.retryButton

C18_Witness ==
    \E i \in Slots :
        /\ frame[i].via = "retry"
        /\ frame[i].pc = "fetch"
        /\ frame[i].calls = 1
        /\ prev.kind = "network"
        /\ dom = LoadingDisplay

\* C19: when a cycle has ended and none is in flight, the status element
\* shows neither "Loading..." nor a retry warning and the version element
\* does not show "Loading...", whatever the payload or the failure.
C19_NoTransientDisplayAtEnd ==
    (/\ \E i \in Slots : frame[i].pc = "done"
     /\ \A i \in Slots : ~InFlight(i))
        => /\ dom.statusText # "Loading..."
           /\ \A n \in 1..Len(PollRetryTexts) : dom.statusText # PollRetryTexts[n]
           /\ dom.statusClass # {"value", "status-warning"}
           /\ dom.versionText # "Loading..."

====
